---------------------------- MODULE Spec2Model ----------------------------
(***************************************************************************)
(* de Bruijn multigrid -> rhombus tiling (dual construction).              *)
(*                                                                         *)
(* The repository holds two variants of one p5.js sketch:                  *)
(*   src/sketch.js         FAMILY_COUNT is the constant 8; the arrow keys  *)
(*                         change lineRange.                               *)
(*   src/unnamed/part_000  FAMILY_COUNT starts at 5; the arrow keys change *)
(*                         FAMILY_COUNT and rebuild.                       *)
(* The variable `program` says which of the two is running.                *)
(*                                                                         *)
(* Numbers.  The code computes in IEEE doubles; the model computes in      *)
(* fixed point, every quantity an integer count of a stated unit:          *)
(*   random() and familyOffsets      1/RandomLevels                        *)
(*   lineSpacing, edgeLength         1/SpacingUnit px   (exact: the code   *)
(*                                   divides min(width,height) by 18)      *)
(*   cos, sin, familyNormals         1/TRIG                                *)
(*   familyLineOffset, intersection  1/(SpacingUnit*RandomLevels) px       *)
(*   familyVectors, corners          1/(SpacingUnit*TRIG) px               *)
(*   angles                          ANGLE_STEP = n stands for 2*pi/n      *)
(***************************************************************************)
EXTENDS Integers, Sequences, FiniteSets, TLC

VARIABLES
  program,        \* "sketch.js" or "part_000"
  FAMILY_COUNT, ANGLE_STEP,
  seed, rng,      \* rng: the state of p5's generator (randomSeed / random)
  lineSpacing, lineRange, edgeLength,
  baseOffsets,    \* the FAMILY_COUNT-1 draws of the last offset computation
  familyOffsets, familyNormals, familyVectors,
  showGrid, paletteMode,
  width, height,  \* the canvas size
  pc,             \* "redraw" | "drawTiles" | "idle" | "offsets"
  lastEvent,      \* the handler that ran last
  iter,           \* drawTiles: the loop indices [i, j, k, l] last processed
  corners,        \* drawTiles: rhombusAt's result for iter (NULL: none)
  drawn,          \* drawTiles: whether a polygon was drawn for iter
  polygons        \* drawTiles: polygons drawn so far in this pass

vars == <<program, FAMILY_COUNT, ANGLE_STEP, seed, rng, lineSpacing, lineRange,
          edgeLength, baseOffsets, familyOffsets, familyNormals, familyVectors,
          showGrid, paletteMode, width, height, pc, lastEvent, iter, corners,
          drawn, polygons>>

----------------------------------------------------------------------------
(* Bounds of the model *)

\* 'r' is pressed while seed < MaxSeed
MaxSeed == 2
\* drawTiles' k and l loops are followed over [-MaxLine, MaxLine] (clipped to
\* [-lineRange, lineRange])
MaxLine == 1
\* the number of values random() can return: k / RandomLevels, 0 <= k < RandomLevels
RandomLevels == 16

\* the canvas sizes a window takes in the model (width, height)
Sizes == {<<60, 50>>, <<800, 600>>, <<1920, 1080>>}

----------------------------------------------------------------------------
(* Program constants *)

SKETCH_FAMILY_COUNT == 8
PART_FAMILY_COUNT == 5
MIN_FAMILIES == 3
MAX_FAMILIES == 10
MIN_LINE_RANGE == 6
MAX_LINE_RANGE == 24
MIN_SPACING == 40
SpacingUnit == 18
RANGE_MARGIN == 10
TRIG == 1000
EPS_INVERSE == 1000000
LcgA == 1664525
LcgC == 1013904223

NULL == <<>>

----------------------------------------------------------------------------
(* Arithmetic *)

Abs(x) == IF x < 0 THEN -x ELSE x
Min(a, b) == IF a < b THEN a ELSE b
Max(a, b) == IF a > b THEN a ELSE b

\* Math.ceil(a / b), b > 0
CeilDiv(a, b) == -((-a) \div b)

\* a / b rounded to the nearest integer, b > 0
RoundDiv(a, b) == (2 * a + b) \div (2 * b)

\* a * m / b rounded to the nearest integer, b # 0, 0 < m; the quotient is
\* split so that no intermediate product leaves 32 bits
MulDiv(a, m, b) ==
  LET sa == IF b < 0 THEN -a ELSE a
      sb == Abs(b)
      q  == sa \div sb
      r  == sa % sb
  IN  q * m + RoundDiv(r * m, sb)

\* Math.cos and Math.sin of ANGLE_STEP * i, in 1/TRIG, for ANGLE_STEP = 2*pi/n
CosTable ==
  << <<1000, -500, -500>>,
     <<1000, 0, -1000, 0>>,
     <<1000, 309, -809, -809, 309>>,
     <<1000, 500, -500, -1000, -500, 500>>,
     <<1000, 623, -223, -901, -901, -223, 623>>,
     <<1000, 707, 0, -707, -1000, -707, 0, 707>>,
     <<1000, 766, 174, -500, -940, -940, -500, 174, 766>>,
     <<1000, 809, 309, -309, -809, -1000, -809, -309, 309, 809>> >>

SinTable ==
  << <<0, 866, -866>>,
     <<0, 1000, 0, -1000>>,
     <<0, 951, 588, -588, -951>>,
     <<0, 866, 866, 0, -866, -866>>,
     <<0, 782, 975, 434, -434, -975, -782>>,
     <<0, 707, 1000, 707, 0, -707, -1000, -707>>,
     <<0, 643, 985, 866, 342, -342, -866, -985, -643>>,
     <<0, 588, 951, 951, 588, 0, -588, -951, -951, -588>> >>

Cos(n, i) == CosTable[n - 2][i + 1]
Sin(n, i) == SinTable[n - 2][i + 1]

\* a p5.Vector (x, y); NULL stands for null
createVector(x, y) == <<x, y>>
vx(v) == v[1]
vy(v) == v[2]
VectorAdd(a, b) == createVector(vx(a) + vx(b), vy(a) + vy(b))

----------------------------------------------------------------------------
(* p5's generator: a linear congruential generator, followed here on its   *)
(* RandomLevels residues.  randomSeed(s) sets the state; random() advances *)
(* it and returns state / modulus.                                         *)

randomSeed(s) == s % RandomLevels

randomNext(z) == (LcgA * z + LcgC) % RandomLevels

RECURSIVE randomList(_, _)
\* the n values random() returns from state z, in 1/RandomLevels
randomList(z, n) ==
  IF n = 0 THEN <<>>
  ELSE <<randomNext(z)>> \o randomList(randomNext(z), n - 1)

RECURSIVE randomState(_, _)
\* the generator's state after n calls of random() from state z
randomState(z, n) == IF n = 0 THEN z ELSE randomState(randomNext(z), n - 1)

RECURSIVE SeqSum(_)
SeqSum(s) == IF s = <<>> THEN 0 ELSE Head(s) + SeqSum(Tail(s))

\* closeOffsets without the outer "% 1"
closeOffsetsNoWrap(base) ==
  LET sum == SeqSum(base)
  IN  Append(base, RandomLevels - (sum % RandomLevels))

\* rebuild: familyOffsets = [...baseOffsets, (1 - (sum % 1)) % 1]
closeOffsets(base) ==
  LET sum == SeqSum(base)
  IN  Append(base, (RandomLevels - (sum % RandomLevels)) % RandomLevels)

----------------------------------------------------------------------------
(* The globals of the sketch, as one record: rebuild reads and writes them *)

Globals ==
  [program |-> program, FAMILY_COUNT |-> FAMILY_COUNT, ANGLE_STEP |-> ANGLE_STEP,
   seed |-> seed, rng |-> rng, lineSpacing |-> lineSpacing,
   lineRange |-> lineRange, edgeLength |-> edgeLength,
   baseOffsets |-> baseOffsets, familyOffsets |-> familyOffsets,
   familyNormals |-> familyNormals, familyVectors |-> familyVectors,
   width |-> width, height |-> height]

\* the globals as the script's top level leaves them, on a canvas of w x h
\* (createCanvas(windowWidth, windowHeight) in setup)
TopLevel(p, w, h) ==
  [program |-> p,
   FAMILY_COUNT |-> IF p = "sketch.js" THEN SKETCH_FAMILY_COUNT ELSE PART_FAMILY_COUNT,
   ANGLE_STEP |-> IF p = "sketch.js" THEN SKETCH_FAMILY_COUNT ELSE PART_FAMILY_COUNT,
   seed |-> 1, rng |-> 0, lineSpacing |-> 60 * SpacingUnit, lineRange |-> 12,
   edgeLength |-> 40 * SpacingUnit, baseOffsets |-> <<>>, familyOffsets |-> <<>>,
   familyNormals |-> <<>>, familyVectors |-> <<>>, width |-> w, height |-> h]

\* reseed left out: the generator goes on from where it was
reseedSkipped(g) == g.rng

\* rebuild: randomSeed(seed), the state the generator draws from
reseed(g) == randomSeed(g.seed)

\* rebuild: lineSpacing = max(40, min(width, height) / 18), in 1/18 px
spacingFor(w, h) == Max(MIN_SPACING * SpacingUnit, Min(w, h))

\* rebuild: lineRange = Math.ceil(min(width, height) / lineSpacing) + 10
lineRangeFor(w, h) ==
  CeilDiv(Min(w, h) * SpacingUnit, spacingFor(w, h)) + RANGE_MARGIN

\* rebuild(), on the globals g; part_000 recomputes ANGLE_STEP first, in
\* sketch.js it is a constant
rebuild(g) ==
  LET n       == g.FAMILY_COUNT
      step    == IF g.program = "part_000" THEN n ELSE g.ANGLE_STEP
      z0      == reseed(g)
      base    == randomList(z0, n - 1)
      spacing == spacingFor(g.width, g.height)
      normals == [i \in 1..n |-> createVector(Cos(step, i - 1), Sin(step, i - 1))]
  IN  [g EXCEPT
         !.ANGLE_STEP = step,
         !.rng = randomState(z0, n - 1),
         !.baseOffsets = base,
         !.familyOffsets = closeOffsets(base),
         !.lineSpacing = spacing,
         !.edgeLength = spacing,
         !.lineRange = lineRangeFor(g.width, g.height),
         !.familyNormals = normals,
         !.familyVectors =
            [i \in 1..n |-> createVector(vx(normals[i]) * spacing, vy(normals[i]) * spacing)]]

\* the globals become g
SetGlobals(g) ==
  /\ program' = g.program
  /\ FAMILY_COUNT' = g.FAMILY_COUNT
  /\ ANGLE_STEP' = g.ANGLE_STEP
  /\ seed' = g.seed
  /\ rng' = g.rng
  /\ lineSpacing' = g.lineSpacing
  /\ lineRange' = g.lineRange
  /\ edgeLength' = g.edgeLength
  /\ baseOffsets' = g.baseOffsets
  /\ familyOffsets' = g.familyOffsets
  /\ familyNormals' = g.familyNormals
  /\ familyVectors' = g.familyVectors
  /\ width' = g.width
  /\ height' = g.height

----------------------------------------------------------------------------
(* Geometry *)

\* (k + familyOffsets[index]) * lineSpacing, in 1/(SpacingUnit*RandomLevels) px
familyLineOffset(index, k) ==
  (k * RandomLevels + familyOffsets[index + 1]) * lineSpacing

\* intersectLines falling back to the origin for parallel lines
intersectLinesOrigin(n1, d1, n2, d2) ==
  LET det == vx(n1) * vy(n2) - vy(n1) * vx(n2)
  IN  IF Abs(det) < (TRIG * TRIG) \div EPS_INVERSE THEN createVector(0, 0)
      ELSE createVector(MulDiv(d1 * vy(n2) - d2 * vy(n1), TRIG, det),
                        MulDiv(vx(n1) * d2 - vx(n2) * d1, TRIG, det))

\* the crossing of the lines n1.p = d1 and n2.p = d2, or NULL when
\* abs(det) < 1e-6
intersectLines(n1, d1, n2, d2) ==
  LET det == vx(n1) * vy(n2) - vy(n1) * vx(n2)
  IN  IF Abs(det) < (TRIG * TRIG) \div EPS_INVERSE THEN NULL
      ELSE createVector(MulDiv(d1 * vy(n2) - d2 * vy(n1), TRIG, det),
                        MulDiv(vx(n1) * d2 - vx(n2) * d1, TRIG, det))

\* per family, Math.ceil(t - bias) for
\* t = (n.x * point.x + n.y * point.y) / lineSpacing - familyOffsets[idx],
\* counted in steps of 1 / (TRIG * RandomLevels * lineSpacing).  The code's
\* bias of 1e-9 lies above the rounding error of its doubles and far below
\* the spacing of the lines, so that a point on a line falls in the strip
\* below it; the bias here is one step of the sines, 1 / TRIG, which has that
\* place in fixed point
cellIndexAt(point) ==
  [idx \in 1..Len(familyNormals) |->
     LET n == familyNormals[idx]
     IN  CeilDiv(vx(n) * vx(point) + vy(n) * vy(point)
                   - familyOffsets[idx] * TRIG * lineSpacing
                   - RandomLevels * lineSpacing,
                 TRIG * RandomLevels * lineSpacing)]

RECURSIVE vertexSum(_, _)
vertexSum(indexes, i) ==
  IF i = 0 THEN createVector(0, 0)
  ELSE LET out == vertexSum(indexes, i - 1)
       IN  createVector(vx(out) + vx(familyVectors[i]) * indexes[i],
                        vy(out) + vy(familyVectors[i]) * indexes[i])

\* the sum over the families of familyVectors[i] * indexes[i]
vertexFromCellIndex(indexes) == vertexSum(indexes, FAMILY_COUNT)

\* rhombusAt with v2 stepped along family i twice
rhombusAtWrongEdge(i, j, k, l) ==
  LET n1 == familyNormals[i + 1]
      n2 == familyNormals[j + 1]
      d1 == familyLineOffset(i, k)
      d2 == familyLineOffset(j, l)
      intersection == intersectLines(n1, d1, n2, d2)
  IN  IF intersection = NULL THEN NULL
      ELSE LET cell == cellIndexAt(intersection)
               baseIndex == [m \in 1..Len(cell) |->
                               IF m = i + 1 THEN k
                               ELSE IF m = j + 1 THEN l ELSE cell[m]]
               v0 == vertexFromCellIndex(baseIndex)
               v1 == VectorAdd(v0, familyVectors[i + 1])
               v2 == VectorAdd(v1, familyVectors[i + 1])
               v3 == VectorAdd(v0, familyVectors[j + 1])
           IN  <<v0, v1, v2, v3>>

\* the corners [v0, v1, v2, v3] of the rhombus dual to the crossing of line k
\* of family i and line l of family j, or NULL
rhombusAt(i, j, k, l) ==
  LET n1 == familyNormals[i + 1]
      n2 == familyNormals[j + 1]
      d1 == familyLineOffset(i, k)
      d2 == familyLineOffset(j, l)
      intersection == intersectLines(n1, d1, n2, d2)
  IN  IF intersection = NULL THEN NULL
      ELSE LET cell == cellIndexAt(intersection)
               baseIndex == [m \in 1..Len(cell) |->
                               IF m = i + 1 THEN k
                               ELSE IF m = j + 1 THEN l ELSE cell[m]]
               v0 == vertexFromCellIndex(baseIndex)
               v1 == VectorAdd(v0, familyVectors[i + 1])
               v2 == VectorAdd(v1, familyVectors[j + 1])
               v3 == VectorAdd(v0, familyVectors[j + 1])
           IN  <<v0, v1, v2, v3>>

\* inViewport with every in place of some
inViewportEvery(points) ==
  LET limitX == width * ((55 * SpacingUnit * TRIG) \div 100)
      limitY == height * ((55 * SpacingUnit * TRIG) \div 100)
  IN  \A n \in 1..Len(points) :
        Abs(vx(points[n])) < limitX /\ Abs(vy(points[n])) < limitY

\* points.some(p => abs(p.x) < width * 0.55 && abs(p.y) < height * 0.55)
inViewport(points) ==
  LET limitX == width * ((55 * SpacingUnit * TRIG) \div 100)
      limitY == height * ((55 * SpacingUnit * TRIG) \div 100)
  IN  \E n \in 1..Len(points) :
        Abs(vx(points[n])) < limitX /\ Abs(vy(points[n])) < limitY

\* rhombusType with >= in place of >
rhombusTypeInclusive(i, j) ==
  LET delta == Abs(i - j)
      angle == Min(delta, FAMILY_COUNT - delta) * 10
      acute == Min(angle, 5 * ANGLE_STEP - angle)
  IN  IF acute >= ANGLE_STEP THEN "thick" ELSE "thin"

\* "thick" or "thin" from the acute angle between families i and j.  Angles
\* are counted in units of pi / (5 * n) for ANGLE_STEP = 2*pi/n: one step is
\* 10 units, pi is 5 * n units, pi / 5 is n units
rhombusType(i, j) ==
  LET delta == Abs(i - j)
      angle == Min(delta, FAMILY_COUNT - delta) * 10
      acute == Min(angle, 5 * ANGLE_STEP - angle)
  IN  IF acute > ANGLE_STEP THEN "thick" ELSE "thin"

----------------------------------------------------------------------------
(* drawTiles *)

NoIter == [i |-> -1, j |-> -1, k |-> 0, l |-> 0]

\* the bound of the k and l loops
loopRange == Min(lineRange, MaxLine)

FirstIter == [i |-> 0, j |-> 1, k |-> -loopRange, l |-> -loopRange]

LastIter ==
  [i |-> FAMILY_COUNT - 2, j |-> FAMILY_COUNT - 1, k |-> loopRange, l |-> loopRange]

\* the indices the nested for loops take after it
NextIter(it) ==
  IF it.l < loopRange THEN [it EXCEPT !.l = it.l + 1]
  ELSE IF it.k < loopRange THEN [it EXCEPT !.k = it.k + 1, !.l = -loopRange]
  ELSE IF it.j + 1 < FAMILY_COUNT
       THEN [i |-> it.i, j |-> it.j + 1, k |-> -loopRange, l |-> -loopRange]
  ELSE [i |-> it.i + 1, j |-> it.i + 2, k |-> -loopRange, l |-> -loopRange]

\* the loop body: if (!corners || !inViewport(corners)) continue; else the
\* polygon is drawn
polygonDrawn(c) == c # NULL /\ inViewport(c)

\* one turn of the innermost loop, for the indices it; count is the number
\* of polygons before it
drawTilesBody(it, count) ==
  LET c == rhombusAt(it.i, it.j, it.k, it.l)
  IN  /\ iter' = it
      /\ corners' = c
      /\ drawn' = polygonDrawn(c)
      /\ polygons' = IF polygonDrawn(c) THEN count + 1 ELSE count
      /\ pc' = IF it = LastIter THEN "idle" ELSE "drawTiles"
      /\ lastEvent' = "draw"
      /\ UNCHANGED <<program, FAMILY_COUNT, ANGLE_STEP, seed, rng, lineSpacing,
                     lineRange, edgeLength, baseOffsets, familyOffsets,
                     familyNormals, familyVectors, showGrid, paletteMode,
                     width, height>>

\* draw(): a frame starts, on redraw() or, in part_000 (which does not call
\* noLoop), on the next tick of the draw loop; drawTiles enters its loops
draw ==
  /\ pc = "redraw" \/ (pc = "idle" /\ program = "part_000")
  /\ drawTilesBody(FirstIter, 0)

\* drawTiles: the next turn of the loops
drawTiles ==
  /\ pc = "drawTiles"
  /\ drawTilesBody(NextIter(iter), polygons)

----------------------------------------------------------------------------
(* Events.  JavaScript runs one handler at a time: none starts during a    *)
(* draw pass.                                                              *)

\* redraw(): the canvas is drawn anew
redraw(event) ==
  /\ pc' = "redraw"
  /\ lastEvent' = event
  /\ iter' = NoIter
  /\ corners' = NULL
  /\ drawn' = FALSE
  /\ polygons' = 0

\* the state after setup(): createCanvas(windowWidth, windowHeight), rebuild()
Init ==
  /\ \E p \in {"sketch.js", "part_000"}, size \in Sizes :
       LET g == rebuild(TopLevel(p, size[1], size[2]))
       IN  /\ program = g.program
           /\ FAMILY_COUNT = g.FAMILY_COUNT
           /\ ANGLE_STEP = g.ANGLE_STEP
           /\ seed = g.seed
           /\ rng = g.rng
           /\ lineSpacing = g.lineSpacing
           /\ lineRange = g.lineRange
           /\ edgeLength = g.edgeLength
           /\ baseOffsets = g.baseOffsets
           /\ familyOffsets = g.familyOffsets
           /\ familyNormals = g.familyNormals
           /\ familyVectors = g.familyVectors
           /\ width = g.width
           /\ height = g.height
  /\ showGrid = TRUE
  /\ paletteMode = "qingxin"
  /\ pc = "redraw"
  /\ lastEvent = "setup"
  /\ iter = NoIter
  /\ corners = NULL
  /\ drawn = FALSE
  /\ polygons = 0

\* sketch.js keyPressed, keyCode === UP_ARROW
sketchUpArrow ==
  /\ pc = "idle" /\ program = "sketch.js"
  /\ lineRange' = Min(lineRange + 2, MAX_LINE_RANGE)
  /\ redraw("UP_ARROW")
  /\ UNCHANGED <<program, FAMILY_COUNT, ANGLE_STEP, seed, rng, lineSpacing,
                 edgeLength, baseOffsets, familyOffsets, familyNormals,
                 familyVectors, showGrid, paletteMode, width, height>>

\* sketch.js keyPressed, keyCode === DOWN_ARROW
sketchDownArrow ==
  /\ pc = "idle" /\ program = "sketch.js"
  /\ lineRange' = Max(lineRange - 2, MIN_LINE_RANGE)
  /\ redraw("DOWN_ARROW")
  /\ UNCHANGED <<program, FAMILY_COUNT, ANGLE_STEP, seed, rng, lineSpacing,
                 edgeLength, baseOffsets, familyOffsets, familyNormals,
                 familyVectors, showGrid, paletteMode, width, height>>

\* sketch.js keyPressed, key "g": showGrid = !showGrid; redraw()
sketchKeyG ==
  /\ pc = "idle" /\ program = "sketch.js"
  /\ showGrid' = ~showGrid
  /\ redraw("g")
  /\ UNCHANGED <<program, FAMILY_COUNT, ANGLE_STEP, seed, rng, lineSpacing,
                 lineRange, edgeLength, baseOffsets, familyOffsets,
                 familyNormals, familyVectors, paletteMode, width, height>>

\* part_000 keyPressed: FAMILY_COUNT = min(FAMILY_COUNT + 1, 10)
familyCountUp(n) == Min(n + 1, MAX_FAMILIES)

\* familyCountDown with the floor one too high
familyCountDownHighFloor(n) == Max(n - 1, MIN_FAMILIES + 1)

\* part_000 keyPressed: FAMILY_COUNT = max(FAMILY_COUNT - 1, 3)
familyCountDown(n) == Max(n - 1, MIN_FAMILIES)

\* part_000 keyPressed, keyCode === UP_ARROW
partUpArrow ==
  /\ pc = "idle" /\ program = "part_000"
  /\ SetGlobals(rebuild([Globals EXCEPT !.FAMILY_COUNT = familyCountUp(FAMILY_COUNT)]))
  /\ redraw("UP_ARROW")
  /\ UNCHANGED <<showGrid, paletteMode>>

\* part_000 keyPressed, keyCode === DOWN_ARROW
partDownArrow ==
  /\ pc = "idle" /\ program = "part_000"
  /\ SetGlobals(rebuild([Globals EXCEPT !.FAMILY_COUNT = familyCountDown(FAMILY_COUNT)]))
  /\ redraw("DOWN_ARROW")
  /\ UNCHANGED <<showGrid, paletteMode>>

\* part_000 keyPressed, key "c": the palette changes; redraw()
partKeyC ==
  /\ pc = "idle" /\ program = "part_000"
  /\ paletteMode' = IF paletteMode = "qingxin" THEN "yan" ELSE "qingxin"
  /\ redraw("c")
  /\ UNCHANGED <<program, FAMILY_COUNT, ANGLE_STEP, seed, rng, lineSpacing,
                 lineRange, edgeLength, baseOffsets, familyOffsets,
                 familyNormals, familyVectors, showGrid, width, height>>

\* keyPressed, key "r" (both programs): seed += 1; rebuild()
keyR ==
  /\ pc = "idle"
  /\ seed < MaxSeed
  /\ SetGlobals(rebuild([Globals EXCEPT !.seed = seed + 1]))
  /\ redraw("r")
  /\ UNCHANGED <<showGrid, paletteMode>>

\* keyPressed, key "s" (both programs): saveCanvas; no global changes and
\* nothing is redrawn
keyS ==
  /\ pc = "idle"
  /\ lastEvent' = "s"
  /\ UNCHANGED <<program, FAMILY_COUNT, ANGLE_STEP, seed, rng, lineSpacing,
                 lineRange, edgeLength, baseOffsets, familyOffsets,
                 familyNormals, familyVectors, showGrid, paletteMode, width,
                 height, pc, iter, corners, drawn, polygons>>

\* windowResized (both programs): resizeCanvas(windowWidth, windowHeight);
\* rebuild()
windowResized ==
  /\ pc = "idle"
  /\ \E size \in Sizes :
       SetGlobals(rebuild([Globals EXCEPT !.width = size[1], !.height = size[2]]))
  /\ redraw("windowResized")
  /\ UNCHANGED <<showGrid, paletteMode>>

Next ==
  \/ draw
  \/ drawTiles
  \/ sketchUpArrow
  \/ sketchDownArrow
  \/ sketchKeyG
  \/ partUpArrow
  \/ partDownArrow
  \/ partKeyC
  \/ keyR
  \/ keyS
  \/ windowResized

Spec == Init /\ [][Next]_vars

----------------------------------------------------------------------------
(* The offset computation of rebuild on arbitrary draws: familyOffsets     *)
(* from any FAMILY_COUNT - 1 values of random(), for every FAMILY_COUNT    *)
(* the programs reach.                                                     *)

\* the values a draw takes here, in 1/RandomLevels
DrawValues == {0, RandomLevels \div 2, RandomLevels - 1}

InitOffsets ==
  /\ program = "part_000"
  /\ FAMILY_COUNT \in MIN_FAMILIES..MAX_FAMILIES
  /\ ANGLE_STEP = FAMILY_COUNT
  /\ baseOffsets \in [1..(FAMILY_COUNT - 1) -> DrawValues]
  /\ familyOffsets = <<>>
  /\ seed = 1
  /\ rng = 0
  /\ lineSpacing = 60 * SpacingUnit
  /\ lineRange = 12
  /\ edgeLength = 40 * SpacingUnit
  /\ familyNormals = <<>>
  /\ familyVectors = <<>>
  /\ showGrid = TRUE
  /\ paletteMode = "qingxin"
  /\ width = 800
  /\ height = 600
  /\ pc = "offsets"
  /\ lastEvent = "setup"
  /\ iter = NoIter
  /\ corners = NULL
  /\ drawn = FALSE
  /\ polygons = 0

\* rebuild's offset lines, on the draws baseOffsets
offsetsOfDraws ==
  /\ pc = "offsets"
  /\ familyOffsets' = closeOffsets(baseOffsets)
  /\ pc' = "idle"
  /\ UNCHANGED <<program, FAMILY_COUNT, ANGLE_STEP, seed, rng, lineSpacing,
                 lineRange, edgeLength, baseOffsets, familyNormals,
                 familyVectors, showGrid, paletteMode, width, height,
                 lastEvent, iter, corners, drawn, polygons>>

NextOffsets == offsetsOfDraws

SpecOffsets == InitOffsets /\ [][NextOffsets]_vars

----------------------------------------------------------------------------
(* Properties *)

\* the handlers that call rebuild, per program
RebuildEvents ==
  IF program = "part_000"
  THEN {"setup", "r", "windowResized", "UP_ARROW", "DOWN_ARROW"}
  ELSE {"setup", "r", "windowResized"}

\* C1: the corners rhombusAt returns for families i < j satisfy
\* v1 = v0 + familyVectors[i], v2 = v1 + familyVectors[j],
\* v3 = v0 + familyVectors[j], hence v2 - v0 = familyVectors[i] + familyVectors[j]
C1_RhombusClosure ==
  corners # NULL =>
    LET fi == familyVectors[iter.i + 1]
        fj == familyVectors[iter.j + 1]
    IN  /\ iter.i < iter.j
        /\ Len(corners) = 4
        /\ corners[2] = VectorAdd(corners[1], fi)
        /\ corners[3] = VectorAdd(corners[2], fj)
        /\ corners[4] = VectorAdd(corners[1], fj)
        /\ vx(corners[3]) - vx(corners[1]) = vx(fi) + vx(fj)
        /\ vy(corners[3]) - vy(corners[1]) = vy(fi) + vy(fj)

\* C1 witness: drawTiles has built a rhombus off the line pair (0, 0), in
\* part_000 with more than five families
C1_Witness ==
  /\ corners # NULL
  /\ program = "part_000" /\ FAMILY_COUNT > 5
  /\ iter.k # 0 /\ iter.l # 0

\* the loop indices are those of a pair of opposite families, i and i + N/2
OppositePair ==
  /\ iter.i >= 0
  /\ FAMILY_COUNT % 2 = 0
  /\ iter.j = iter.i + FAMILY_COUNT \div 2

\* C2: for an even family count, the pair of families i and i + N/2 yields
\* no crossing, no rhombus and no polygon, for all line indices
C2_OppositeFamiliesSkipped ==
  OppositePair =>
    /\ intersectLines(familyNormals[iter.i + 1], familyLineOffset(iter.i, iter.k),
                      familyNormals[iter.j + 1], familyLineOffset(iter.j, iter.l))
         = NULL
    /\ rhombusAt(iter.i, iter.j, iter.k, iter.l) = NULL
    /\ corners = NULL
    /\ ~drawn

\* C2 witness: drawTiles has passed an opposite pair, after polygons of
\* other pairs
C2_Witness == OppositePair /\ polygons > 0 /\ iter.i > 0

\* the corner p lies inside the viewport bound: 2 |p.x| < 1.1 width and
\* 2 |p.y| < 1.1 height, p in 1/(SpacingUnit*TRIG) px
CornerInside(p) ==
  /\ 2 * Abs(vx(p)) < (11 * width * SpacingUnit * TRIG) \div 10
  /\ 2 * Abs(vy(p)) < (11 * height * SpacingUnit * TRIG) \div 10

\* C4: a rhombus is drawn if and only if one of its four corners p has
\* |p.x| < 0.55 * width and |p.y| < 0.55 * height
C4_ViewportCulling ==
  corners # NULL =>
    /\ (\A n \in 1..4 : ~CornerInside(corners[n])) => ~drawn
    /\ (\E n \in 1..4 : CornerInside(corners[n])) => drawn

\* C4 witness: in one pass a rhombus was drawn and a later one, all corners
\* outside, was not
C4_Witness == corners # NULL /\ ~drawn /\ polygons > 0

\* C5: what rebuild leaves is a function of seed, FAMILY_COUNT, width and
\* height: it is what rebuild makes of the top-level globals with these four
C5_RebuildDeterministic ==
  (pc = "redraw" /\ lastEvent \in RebuildEvents) =>
    LET g == rebuild([TopLevel(program, width, height) EXCEPT
                        !.seed = seed, !.FAMILY_COUNT = FAMILY_COUNT])
    IN  /\ familyOffsets = g.familyOffsets
        /\ lineSpacing = g.lineSpacing
        /\ edgeLength = g.edgeLength
        /\ lineRange = g.lineRange
        /\ familyNormals = g.familyNormals
        /\ familyVectors = g.familyVectors

\* C5 witness: a rebuild on 'r' in sketch.js, with a seed other than the
\* initial one, after whatever events came before
C5_Witness ==
  /\ pc = "redraw" /\ lastEvent = "r" /\ program = "sketch.js" /\ seed > 1

\* C6: familyOffsets has FAMILY_COUNT entries, all in [0, 1), the last one
\* (1 - (sum % 1)) % 1, and their sum is 0 modulo 1
C6_OffsetsClosed ==
  familyOffsets # <<>> =>
    /\ Len(familyOffsets) = FAMILY_COUNT
    /\ \A n \in 1..Len(familyOffsets) :
         familyOffsets[n] >= 0 /\ familyOffsets[n] < RandomLevels
    /\ \A n \in 1..(FAMILY_COUNT - 1) : familyOffsets[n] = baseOffsets[n]
    /\ SeqSum(familyOffsets) % RandomLevels = 0

\* C6 witness: ten families whose nine draws sum to a whole number above 0,
\* so that the last offset is (1 - 0) % 1 = 0
C6_Witness ==
  /\ familyOffsets # <<>>
  /\ FAMILY_COUNT = MAX_FAMILIES
  /\ SeqSum(baseOffsets) > 0
  /\ familyOffsets[FAMILY_COUNT] = 0

\* the step is the handler of `event`
Handled(event) == pc' = "redraw" /\ lastEvent' = event

\* C8: in part_000 FAMILY_COUNT starts at 5 and stays an integer in [3, 10];
\* UP_ARROW raises it by 1 unless it is 10, DOWN_ARROW lowers it by 1 unless
\* it is 3, and no other step changes it
C8_FamilyCountClamped ==
  /\ (program = "part_000" => FAMILY_COUNT = 5)
  /\ [](program = "part_000" => FAMILY_COUNT \in 3..10)
  /\ [][program = "part_000" =>
          IF Handled("UP_ARROW")
          THEN FAMILY_COUNT' = IF FAMILY_COUNT = 10 THEN 10 ELSE FAMILY_COUNT + 1
          ELSE IF Handled("DOWN_ARROW")
          THEN FAMILY_COUNT' = IF FAMILY_COUNT = 3 THEN 3 ELSE FAMILY_COUNT - 1
          ELSE FAMILY_COUNT' = FAMILY_COUNT]_vars

\* C8 witness: DOWN_ARROW was pressed and FAMILY_COUNT is at its floor
C8_Witness ==
  program = "part_000" /\ lastEvent = "DOWN_ARROW" /\ FAMILY_COUNT = 3

\* C9: in sketch.js a press of UP_ARROW or DOWN_ARROW leaves lineRange in
\* [6, 24] and changes nothing else of the generation
C9_ArrowKeysKeepGeneration ==
  [][(program = "sketch.js" /\ (Handled("UP_ARROW") \/ Handled("DOWN_ARROW"))) =>
       /\ lineRange' \in 6..24
       /\ UNCHANGED <<seed, familyOffsets, lineSpacing, edgeLength,
                      familyNormals, familyVectors>>]_vars

\* C10: in sketch.js UP_ARROW never decreases lineRange and DOWN_ARROW never
\* increases it
C10_ArrowKeysMonotone ==
  [][program = "sketch.js" =>
       /\ Handled("UP_ARROW") => lineRange' >= lineRange
       /\ Handled("DOWN_ARROW") => lineRange' <= lineRange]_vars

\* families i and j of the five of part_000's start are `d` apart
Apart(i, j, d) == Abs(i - j) \in d

\* C3 as stated: rhombusType is symmetric and, for five families, "thin" for
\* |i - j| in {1, 4} and "thick" for |i - j| in {2, 3}
C3_AsStated ==
  /\ \A i, j \in 0..(FAMILY_COUNT - 1) : rhombusType(i, j) = rhombusType(j, i)
  /\ FAMILY_COUNT = 5 =>
       \A i, j \in 0..4 :
         /\ Apart(i, j, {1, 4}) => rhombusType(i, j) = "thin"
         /\ Apart(i, j, {2, 3}) => rhombusType(i, j) = "thick"

\* C3, amended: rhombusType is symmetric and, for five families, exactly two
\* classes occur over the pairs of distinct families: "thick" for |i - j| in
\* {1, 4} and "thin" for |i - j| in {2, 3}
C3_ThickThin ==
  /\ \A i, j \in 0..(FAMILY_COUNT - 1) : rhombusType(i, j) = rhombusType(j, i)
  /\ FAMILY_COUNT = 5 =>
       /\ \A i, j \in 0..4 :
            /\ Apart(i, j, {1, 4}) => rhombusType(i, j) = "thick"
            /\ Apart(i, j, {2, 3}) => rhombusType(i, j) = "thin"
       /\ {rhombusType(q[1], q[2]) : q \in {r \in (0..4) \X (0..4) : r[1] # r[2]}}
            = {"thick", "thin"}

\* C3 witness: part_000 with five families, after a pass of drawTiles
C3_Witness ==
  /\ program = "part_000" /\ FAMILY_COUNT = 5 /\ pc = "idle"
  /\ rhombusType(0, 1) = "thick" /\ rhombusType(0, 2) = "thin"

============================================================================
